---- MODULE Spec2Model ----
(***************************************************************************)
(* fun-html: the element constructors of src/conv.rs and the axum response *)
(* adapter of src/interop/axum.rs, over the node model and the serializer  *)
(* described in sections 3 and 4 of the specification.                     *)
(*                                                                         *)
(* A string is a sequence of one-character strings, so that escaping and   *)
(* serialization are computed character by character.                      *)
(***************************************************************************)
EXTENDS Naturals, Sequences, FiniteSets

\* ---------------------------------------------------------------- bounds
\* longest string drawn for a string argument
MaxStrLen == 2
\* longest children sequence drawn for a children argument
MaxKids == 2
\* longest attribute sequence drawn for an attributes argument
MaxAttrs == 2

\* ---------------------------------------------------------------- strings
\* the markup metacharacters and one ordinary character
Chars == {"&", "<", ">", "\"", "x"}

SeqsUpTo(S, n) == UNION {[1..k -> S] : k \in 0..n}

\* the strings named by the specification's examples
ExampleStrs ==
  { <<"&", "a", "m", "p", ";">>,
    <<"\"", "q", "u", "o", "t", "e", "\"">>,
    <<"<", "s", "c", "r", "i", "p", "t", ">">>,
    <<"<", "b", ">", "h", "i", "<", "/", "b", ">">>,
    <<"g", "o">> }

\* the strings a caller passes as a string argument
Strs == SeqsUpTo(Chars, MaxStrLen) \cup ExampleStrs

RECURSIVE Flatten(_)
Flatten(ss) == IF ss = <<>> THEN <<>> ELSE Head(ss) \o Flatten(Tail(ss))

\* ---------------------------------------------------------------- node model
\* Attribute { name, value: optional string }
Attribute_new(nm, value) == [name |-> nm, hasValue |-> TRUE, value |-> value]
Attribute_new_flag(nm) == [name |-> nm, hasValue |-> FALSE, value |-> <<>>]

\* attr::name, attr::content, attr::rel, attr::href
name(value) == Attribute_new(<<"n", "a", "m", "e">>, value)
content(value) == Attribute_new(<<"c", "o", "n", "t", "e", "n", "t">>, value)
rel(value) == Attribute_new(<<"r", "e", "l">>, value)
href(value) == Attribute_new(<<"h", "r", "e", "f">>, value)

\* the variants of ElementInner; every variant carries all fields so that
\* nodes of different variants can be compared
Node(kind, tag, value, attributes, children) ==
  [kind |-> kind, tag |-> tag, value |-> value,
   attributes |-> attributes, children |-> children]

ElementInner_None == Node("None", <<>>, <<>>, <<>>, <<>>)
ElementInner_Text(value) == Node("Text", <<>>, value, <<>>, <<>>)
ElementInner_Raw(value) == Node("RawMarkup", <<>>, value, <<>>, <<>>)

\* Element::new(tag, attributes, children)
Element_new(tag, attributes, children) ==
  Node("Element", tag, <<>>, attributes, children)
\* Element::new_void(tag, attributes): no children field
Element_new_void(tag, attributes) ==
  Node("VoidElement", tag, <<>>, attributes, <<>>)

\* elt::raw: verbatim markup
raw(value) == ElementInner_Raw(value)

\* ---------------------------------------------------------------- serializer
escape_text_char(c) ==
  CASE c = "&" -> <<"&", "a", "m", "p", ";">>
    [] c = "<" -> <<"&", "l", "t", ";">>
    [] c = ">" -> <<"&", "g", "t", ";">>
    [] OTHER -> <<c>>

escape_text(v) == Flatten([i \in 1..Len(v) |-> escape_text_char(v[i])])

escape_attr_char(c) ==
  CASE c = "&" -> <<"&", "a", "m", "p", ";">>
    [] c = "\"" -> <<"&", "q", "u", "o", "t", ";">>
    [] OTHER -> <<c>>

escape_attr_value(v) == Flatten([i \in 1..Len(v) |-> escape_attr_char(v[i])])

render_attr(at) ==
  <<" ">> \o at.name \o
  (IF at.hasValue
     THEN <<"=", "\"">> \o escape_attr_value(at.value) \o <<"\"">>
     ELSE <<>>)

render_attrs(attrs) == Flatten([i \in 1..Len(attrs) |-> render_attr(attrs[i])])

RECURSIVE render(_)
render(node) ==
  CASE node.kind = "None" -> <<>>
    [] node.kind = "Text" -> escape_text(node.value)
    [] node.kind = "RawMarkup" -> node.value
    [] node.kind = "VoidElement" ->
         <<"<">> \o node.tag \o render_attrs(node.attributes) \o <<">">>
    [] node.kind = "Element" ->
         <<"<">> \o node.tag \o render_attrs(node.attributes) \o <<">">>
         \o Flatten([i \in 1..Len(node.children) |-> render(node.children[i])])
         \o <<"<", "/">> \o node.tag \o <<">">>

\* Document: an owning wrapper around one root node
Document_new(root) == [root |-> root]
\* Document's stringification: the rendering of its root
Document_to_string(document) == render(document.root)

\* ---------------------------------------------------------------- catalogue (conv.rs)
\* renders nothing
none_comment == ElementInner_Raw(<<"<", "!", "-", "-", "-", "-", ">">>)

none == ElementInner_None

\* HTML escaped text
text_unescaped(value) == ElementInner_Raw(value)

text(value) == ElementInner_Text(value)

\* From<Cow<str>> for Element, used by title and textarea: escaped text
Element_from(value) == text(value)

\* <div>
div(children) == Element_new(<<"d", "i", "v">>, <<>>, children)

\* <head>
head(children) == Element_new(<<"h", "e", "a", "d">>, <<>>, children)

\* <legend>
legend(children) == Element_new(<<"l", "e", "g", "e", "n", "d">>, <<>>, children)

\* <meta>
meta(attributes) == Element_new_void(<<"m", "e", "t", "a">>, attributes)

\* <meta charset="UTF-8"> (deprecated name)
meta_charset_utf_8 ==
  raw(<<"<", "m", "e", "t", "a", " ", "c", "h", "a", "r", "s", "e", "t", "=", "\"", "U", "T", "F", "-", "8", "\"", ">">>)

\* <meta charset="UTF-8">
meta_charset_utf8 ==
  raw(<<"<", "m", "e", "t", "a", " ", "c", "h", "a", "r", "s", "e", "t", "=", "\"", "U", "T", "F", "-", "8", "\"", ">">>)

\* <meta name="viewport" content="width=device-width, initial-scale=1.0">
ViewportMarkup ==
  <<"<", "m", "e", "t", "a", " ", "n", "a", "m", "e", "=", "\"", "v", "i", "e", "w", "p", "o", "r", "t", "\"", " ", "c", "o", "n", "t", "e", "n", "t", "=", "\"", "w", "i", "d", "t", "h", "=", "d", "e", "v", "i", "c", "e", "-", "w", "i", "d", "t", "h", ",", " ", "i", "n", "i", "t", "i", "a", "l", "-", "s", "c", "a", "l", "e", "=", "1", ".", "0", "\"", ">">>

meta_viewport_escaped == ElementInner_Text(ViewportMarkup)

meta_viewport == raw(ViewportMarkup)

\* <meta name="color-scheme" content="{scheme}">
meta_color_scheme_flag(scheme) ==
  meta(<<name(<<"c", "o", "l", "o", "r", "-", "s", "c", "h", "e", "m", "e">>), Attribute_new_flag(<<"c", "o", "n", "t", "e", "n", "t">>)>>)

meta_color_scheme(scheme) ==
  meta(<<name(<<"c", "o", "l", "o", "r", "-", "s", "c", "h", "e", "m", "e">>), content(scheme)>>)

\* <link>
link(attributes) == Element_new_void(<<"l", "i", "n", "k">>, attributes)

\* <link rel="stylesheet" href="{url}">
link_stylesheet_swapped(url) ==
  link(<<href(url), rel(<<"s", "t", "y", "l", "e", "s", "h", "e", "e", "t">>)>>)

link_stylesheet(url) ==
  link(<<rel(<<"s", "t", "y", "l", "e", "s", "h", "e", "e", "t">>), href(url)>>)

\* <script>
script(url) == Element_new(<<"s", "c", "r", "i", "p", "t">>, <<href(url)>>, <<>>)

\* <title>
title(txt) == Element_new(<<"t", "i", "t", "l", "e">>, <<>>, <<Element_from(txt)>>)

\* <body>
body(children) == Element_new(<<"b", "o", "d", "y">>, <<>>, children)

\* <hgroup>
hgroup(children) == Element_new(<<"h", "g", "r", "o", "u", "p">>, <<>>, children)

\* <h1>
h1(children) == Element_new(<<"h", "1">>, <<>>, children)

\* <h2>
h2(children) == Element_new(<<"h", "2">>, <<>>, children)

\* <h3>
h3(children) == Element_new(<<"h", "3">>, <<>>, children)

\* <h4>
h4(children) == Element_new(<<"h", "4">>, <<>>, children)

\* <h5>
h5(children) == Element_new(<<"h", "5">>, <<>>, children)

\* <h6>
h6(children) == Element_new(<<"h", "6">>, <<>>, children)

\* <p>
p(children) == Element_new(<<"p">>, <<>>, children)

\* <br>
br_with_close == Element_new(<<"b", "r">>, <<>>, <<>>)

br == Element_new_void(<<"b", "r">>, <<>>)

\* <hr>
hr == Element_new_void(<<"h", "r">>, <<>>)

\* <small>
small(children) == Element_new(<<"s", "m", "a", "l", "l">>, <<>>, children)

\* <span>
span(children) == Element_new(<<"s", "p", "a", "n">>, <<>>, children)

\* <table>
table(children) == Element_new(<<"t", "a", "b", "l", "e">>, <<>>, children)

\* <tr>
tr(children) == Element_new(<<"t", "r">>, <<>>, children)

\* <td>
td(children) == Element_new(<<"t", "d">>, <<>>, children)

\* <th>
th(children) == Element_new(<<"t", "h">>, <<>>, children)

\* <thead>
thead(children) == Element_new(<<"t", "h", "e", "a", "d">>, <<>>, children)

\* <tbody>
tbody(children) == Element_new(<<"t", "b", "o", "d", "y">>, <<>>, children)

\* <tfoot>
tfoot(children) == Element_new(<<"t", "f", "o", "o", "t">>, <<>>, children)

\* <section>
section(children) == Element_new(<<"s", "e", "c", "t", "i", "o", "n">>, <<>>, children)

\* <article>
article(children) == Element_new(<<"a", "r", "t", "i", "c", "l", "e">>, <<>>, children)

\* <header>
header(children) == Element_new(<<"h", "e", "a", "d", "e", "r">>, <<>>, children)

\* <main>
main(children) == Element_new(<<"m", "a", "i", "n">>, <<>>, children)

\* <footer>
footer(children) == Element_new(<<"f", "o", "o", "t", "e", "r">>, <<>>, children)

\* <a>
a_flag(href_, children) ==
  Element_new(<<"a">>, <<Attribute_new_flag(<<"h", "r", "e", "f">>)>>, children)

a(href_, children) ==
  Element_new(<<"a">>, <<Attribute_new(<<"h", "r", "e", "f">>, href_)>>, children)

\* <img>
img_with_close(attributes) == Element_new(<<"i", "m", "g">>, attributes, <<>>)

img(attributes) == Element_new_void(<<"i", "m", "g">>, attributes)

\* <ul>
ul(children) == Element_new(<<"u", "l">>, <<>>, children)

\* <ol>
ol(children) == Element_new(<<"o", "l">>, <<>>, children)

\* <li>
li(children) == Element_new(<<"l", "i">>, <<>>, children)

\* <form>
form(attributes, children) ==
  Element_new(<<"f", "o", "r", "m">>, attributes, children)

\* <fieldset>
fieldset(attributes, children) ==
  Element_new(<<"f", "i", "e", "l", "d", "s", "e", "t">>, attributes, children)

\* <input>
input(attributes) == Element_new_void(<<"i", "n", "p", "u", "t">>, attributes)

\* <textarea>
textarea(attributes, txt) ==
  Element_new(<<"t", "e", "x", "t", "a", "r", "e", "a">>, attributes, <<Element_from(txt)>>)

\* <select>
select(attributes, children) ==
  Element_new(<<"s", "e", "l", "e", "c", "t">>, attributes, children)

\* <option>
option(attributes, children) ==
  Element_new(<<"o", "p", "t", "i", "o", "n">>, attributes, children)

\* <button>
button(attributes, children) ==
  Element_new(<<"b", "u", "t", "t", "o", "n">>, attributes, children)

\* <label>
label(attributes, children) ==
  Element_new(<<"l", "a", "b", "e", "l">>, attributes, children)

\* the constructors, by signature
NullaryFns ==
  {"none", "meta_charset_utf_8", "meta_charset_utf8", "meta_viewport", "br",
   "hr"}
StrFns ==
  {"text", "raw", "meta_color_scheme", "link_stylesheet", "script", "title"}
AttrsFns ==
  {"meta", "link", "img", "input"}
ChildrenFns ==
  {"div", "head", "legend", "body", "hgroup", "h1", "h2", "h3", "h4", "h5",
   "h6", "p", "small", "span", "table", "tr", "td", "th", "thead", "tbody",
   "tfoot", "section", "article", "header", "main", "footer", "ul", "ol",
   "li"}
AttrsChildrenFns ==
  {"form", "fieldset", "select", "option", "button", "label"}

\* the call fn(...) with the arguments its signature takes
Build(fn, str, attrs, kids) ==
  CASE fn = "none" -> none
    [] fn = "div" -> div(kids)
    [] fn = "head" -> head(kids)
    [] fn = "legend" -> legend(kids)
    [] fn = "meta" -> meta(attrs)
    [] fn = "meta_charset_utf_8" -> meta_charset_utf_8
    [] fn = "meta_charset_utf8" -> meta_charset_utf8
    [] fn = "meta_viewport" -> meta_viewport
    [] fn = "meta_color_scheme" -> meta_color_scheme(str)
    [] fn = "link" -> link(attrs)
    [] fn = "link_stylesheet" -> link_stylesheet(str)
    [] fn = "script" -> script(str)
    [] fn = "title" -> title(str)
    [] fn = "body" -> body(kids)
    [] fn = "hgroup" -> hgroup(kids)
    [] fn = "h1" -> h1(kids)
    [] fn = "h2" -> h2(kids)
    [] fn = "h3" -> h3(kids)
    [] fn = "h4" -> h4(kids)
    [] fn = "h5" -> h5(kids)
    [] fn = "h6" -> h6(kids)
    [] fn = "p" -> p(kids)
    [] fn = "br" -> br
    [] fn = "hr" -> hr
    [] fn = "small" -> small(kids)
    [] fn = "span" -> span(kids)
    [] fn = "table" -> table(kids)
    [] fn = "tr" -> tr(kids)
    [] fn = "td" -> td(kids)
    [] fn = "th" -> th(kids)
    [] fn = "thead" -> thead(kids)
    [] fn = "tbody" -> tbody(kids)
    [] fn = "tfoot" -> tfoot(kids)
    [] fn = "section" -> section(kids)
    [] fn = "article" -> article(kids)
    [] fn = "header" -> header(kids)
    [] fn = "main" -> main(kids)
    [] fn = "footer" -> footer(kids)
    [] fn = "a" -> a(str, kids)
    [] fn = "img" -> img(attrs)
    [] fn = "ul" -> ul(kids)
    [] fn = "ol" -> ol(kids)
    [] fn = "li" -> li(kids)
    [] fn = "form" -> form(attrs, kids)
    [] fn = "fieldset" -> fieldset(attrs, kids)
    [] fn = "input" -> input(attrs)
    [] fn = "textarea" -> textarea(attrs, str)
    [] fn = "select" -> select(attrs, kids)
    [] fn = "option" -> option(attrs, kids)
    [] fn = "button" -> button(attrs, kids)
    [] fn = "label" -> label(attrs, kids)
    [] fn = "text" -> text(str)
    [] fn = "raw" -> raw(str)

\* ---------------------------------------------------------------- response adapter (axum.rs)
\* axum_core Body::new: the body holds the string it is given
Body_new(string) == string
\* http Response::new: a response around the body, with no header set
Response_new(payload) == [headers |-> {}, body |-> payload]
\* impl IntoResponse for Document
into_response(document) == Response_new(Body_new(Document_to_string(document)))

\* ---------------------------------------------------------------- arguments
\* the attributes a caller passes: a value holding both characters that
\* attribute escaping replaces, a boolean attribute, an empty-string value
AttrSamples ==
  { Attribute_new(<<"i", "d">>, <<"\"", "&">>),
    Attribute_new_flag(<<"d", "i", "s", "a", "b", "l", "e", "d">>),
    Attribute_new(<<"c", "l", "a", "s", "s">>, <<>>) }

AttrSeqs == SeqsUpTo(AttrSamples, MaxAttrs)

\* the children a caller passes: nothing, escaped text, a nested list
KidSamples ==
  { none,
    text(<<"<", "&">>),
    ul(<<li(<<text(<<"x", ">">>)>>), hr>>) }

KidSeqs == SeqsUpTo(KidSamples, MaxKids)

\* raw markup below a nested element, for every string
RawKidSeqs == { <<li(<<raw(v), none>>)>> : v \in Strs }

\* the child of the specification's link example
ExampleKidSeqs == { <<text(<<"g", "o">>)>> }

\* ---------------------------------------------------------------- state
VARIABLES
  pc,    \* "start", "built", "nested", "rendered", "doc", "responded"
  call,  \* the constructor call made: its name and arguments
  cur,   \* the Element the call returned
  out,   \* the string the latest to_string of cur returned
  doc,   \* the Document cur was moved into
  resp   \* the Response the adapter returned

vars == <<pc, call, cur, out, doc, resp>>

Init ==
  /\ pc = "start"
  /\ call = [fn |-> "", str |-> <<>>, attributes |-> <<>>, children |-> <<>>]
  /\ cur = ElementInner_None
  /\ out = <<>>
  /\ doc = Document_new(ElementInner_None)
  /\ resp = Response_new(<<>>)

\* the effect of a constructor call: the element it returns is held in cur
Call(fn, str, attrs, kids) ==
  /\ call' = [fn |-> fn, str |-> str, attributes |-> attrs, children |-> kids]
  /\ cur' = Build(fn, str, attrs, kids)
  /\ UNCHANGED <<out, doc, resp>>

\* none(), br(), hr(), meta_charset_utf8(), meta_viewport()
CallNullary ==
  /\ pc = "start"
  /\ pc' = "built"
  /\ \E fn \in NullaryFns : Call(fn, <<>>, <<>>, <<>>)

\* text(value), raw(value), title(text), script(url), ...
CallStr ==
  /\ pc = "start"
  /\ pc' = "built"
  /\ \E fn \in StrFns, v \in Strs : Call(fn, v, <<>>, <<>>)

\* meta(attributes), link, img, input
CallAttrs ==
  /\ pc = "start"
  /\ pc' = "built"
  /\ \E fn \in AttrsFns, ats \in AttrSeqs : Call(fn, <<>>, ats, <<>>)

\* div(children), ...
CallChildren ==
  /\ pc = "start"
  /\ pc' = "built"
  /\ \E fn \in ChildrenFns, kids \in KidSeqs \cup RawKidSeqs :
       Call(fn, <<>>, <<>>, kids)

\* a(href, children)
CallStrChildren ==
  /\ pc = "start"
  /\ pc' = "built"
  /\ \E v \in Strs, kids \in KidSeqs \cup ExampleKidSeqs :
       Call("a", v, <<>>, kids)

\* form(attributes, children), ...
CallAttrsChildren ==
  /\ pc = "start"
  /\ pc' = "built"
  /\ \E fn \in AttrsChildrenFns, ats \in AttrSeqs, kids \in KidSeqs :
       Call(fn, <<>>, ats, kids)

\* textarea(attributes, text)
CallAttrsStr ==
  /\ pc = "start"
  /\ pc' = "built"
  /\ \E ats \in AttrSeqs, v \in Strs : Call("textarea", v, ats, <<>>)

\* div(children) around the element built before, alone or between siblings:
\* the element is moved into its parent
CallChildrenNested ==
  /\ pc = "built"
  /\ pc' = "nested"
  /\ \E kids \in { <<cur>>, <<text(<<"<", "&">>), cur, none>> } :
       Call("div", <<>>, <<>>, kids)

\* Display for Element: the element is borrowed and may be rendered again
to_string ==
  /\ pc \in {"built", "nested", "rendered"}
  /\ out' = render(cur)
  /\ pc' = "rendered"
  /\ UNCHANGED <<call, cur, doc, resp>>

\* the element is moved into a Document
Document_from ==
  /\ pc \in {"built", "nested"}
  /\ doc' = Document_new(cur)
  /\ pc' = "doc"
  /\ UNCHANGED <<call, cur, out, resp>>

\* IntoResponse::into_response(self): the document is consumed
IntoResponse ==
  /\ pc = "doc"
  /\ resp' = into_response(doc)
  /\ pc' = "responded"
  /\ UNCHANGED <<call, cur, out, doc>>

Next ==
  \/ CallNullary
  \/ CallStr
  \/ CallAttrs
  \/ CallChildren
  \/ CallStrChildren
  \/ CallAttrsChildren
  \/ CallAttrsStr
  \/ CallChildrenNested
  \/ to_string
  \/ Document_from
  \/ IntoResponse

Spec == Init /\ [][Next]_vars

\* ---------------------------------------------------------------- reading the output back
\* What a reader of the emitted markup sees: the functions below scan a
\* rendered string character by character and never look at the tree.

\* the characters of a tag name or an attribute name
NameChars ==
  {"a", "b", "c", "d", "e", "f", "g", "h", "i", "j", "k", "l", "m", "n", "o",
   "p", "q", "r", "s", "t", "u", "v", "w", "x", "y", "z", "0", "1", "2", "3",
   "4", "5", "6", "7", "8", "9", "-"}

\* the entity references and the characters they stand for
TextEntities ==
  { << <<"&", "a", "m", "p", ";">>, "&" >>,
    << <<"&", "l", "t", ";">>, "<" >>,
    << <<"&", "g", "t", ";">>, ">" >> }

AttrEntities == TextEntities \cup { << <<"&", "q", "u", "o", "t", ";">>, "\"" >> }

StartsWith(e, pat) == Len(pat) <= Len(e) /\ SubSeq(e, 1, Len(pat)) = pat

EndsWith(e, pat) ==
  Len(pat) <= Len(e) /\ SubSeq(e, Len(e) - Len(pat) + 1, Len(e)) = pat

\* the characters a string of entity references and plain characters stands
\* for; an ampersand that starts no known reference decodes to "BAD"
RECURSIVE Decode(_, _)
Decode(e, ents) ==
  IF e = <<>> THEN <<>>
  ELSE IF Head(e) # "&" THEN <<Head(e)>> \o Decode(Tail(e), ents)
  ELSE LET m == {q \in ents : StartsWith(e, q[1])}
       IN IF m = {} THEN <<"BAD">>
          ELSE LET q == CHOOSE r \in m : TRUE
               IN <<q[2]>> \o Decode(SubSeq(e, Len(q[1]) + 1, Len(e)), ents)

Count(e, c) == Cardinality({i \in 1..Len(e) : e[i] = c})

\* first position from i on that holds no name character
RECURSIVE NameEnd(_, _)
NameEnd(o, i) ==
  IF i > Len(o) \/ o[i] \notin NameChars THEN i ELSE NameEnd(o, i + 1)

\* first position from i on that holds a double quote
RECURSIVE QuoteAt(_, _)
QuoteAt(o, i) == IF i > Len(o) \/ o[i] = "\"" THEN i ELSE QuoteAt(o, i + 1)

\* the attributes of an opening tag, read from position i (just after the
\* tag name) up to the closing '>'; each is one space, a name, and either
\* nothing or ="..." with no double quote inside
RECURSIVE LexAttrs(_, _, _)
LexAttrs(o, i, acc) ==
  LET bad == [ok |-> FALSE, attrs |-> acc, end |-> i]
  IN IF i > Len(o) THEN bad
     ELSE IF o[i] = ">" THEN [ok |-> TRUE, attrs |-> acc, end |-> i]
     ELSE IF o[i] # " " THEN bad
     ELSE LET j == NameEnd(o, i + 1)
          IN IF j = i + 1 THEN bad
             ELSE IF j <= Len(o) /\ o[j] = "="
               THEN IF j + 1 > Len(o) \/ o[j + 1] # "\"" THEN bad
                    ELSE LET k == QuoteAt(o, j + 2)
                         IN IF k > Len(o) THEN bad
                            ELSE LexAttrs(o, k + 1,
                                   Append(acc, [name |-> SubSeq(o, i + 1, j - 1),
                                                hasValue |-> TRUE,
                                                value |-> SubSeq(o, j + 2, k - 1)]))
               ELSE LexAttrs(o, j,
                      Append(acc, [name |-> SubSeq(o, i + 1, j - 1),
                                   hasValue |-> FALSE,
                                   value |-> <<>>]))

\* the tag starting at position i, where o[i] = "<"
LexTag(o, i) ==
  LET bad == [ok |-> FALSE, type |-> "bad", tag |-> <<>>, attrs |-> <<>>, end |-> i]
  IN IF i + 1 > Len(o) THEN bad
     ELSE IF o[i + 1] = "/"
       THEN LET j == NameEnd(o, i + 2)
            IN IF j = i + 2 \/ j > Len(o) \/ o[j] # ">" THEN bad
               ELSE [ok |-> TRUE, type |-> "close", tag |-> SubSeq(o, i + 2, j - 1),
                     attrs |-> <<>>, end |-> j]
       ELSE LET j == NameEnd(o, i + 1)
                r == LexAttrs(o, j, <<>>)
            IN IF j = i + 1 \/ ~r.ok THEN bad
               ELSE [ok |-> TRUE, type |-> "open", tag |-> SubSeq(o, i + 1, j - 1),
                     attrs |-> r.attrs, end |-> r.end]

\* the opening tag a rendered element starts with
FirstTag(o) ==
  IF o # <<>> /\ o[1] = "<" THEN LexTag(o, 1)
  ELSE [ok |-> FALSE, type |-> "bad", tag |-> <<>>, attrs |-> <<>>, end |-> 0]

\* the attributes as a reader decodes them
DecodedAttrs(attrs) ==
  [i \in 1..Len(attrs) |-> [attrs[i] EXCEPT !.value = Decode(@, AttrEntities)]]

\* the tags HTML closes implicitly
VoidTags ==
  { <<"b", "r">>, <<"h", "r">>, <<"m", "e", "t", "a">>, <<"l", "i", "n", "k">>,
    <<"i", "m", "g">>, <<"i", "n", "p", "u", "t">> }

\* every closing tag closes the innermost open element, no void tag is
\* closed, and nothing is left open at the end
RECURSIVE Balanced(_, _, _)
Balanced(o, i, open) ==
  IF i > Len(o) THEN open = <<>>
  ELSE IF o[i] # "<" THEN Balanced(o, i + 1, open)
  ELSE LET t == LexTag(o, i)
       IN /\ t.ok
          /\ IF t.type = "open"
               THEN Balanced(o, t.end + 1,
                             IF t.tag \in VoidTags THEN open ELSE <<t.tag>> \o open)
               ELSE /\ open # <<>>
                    /\ Head(open) = t.tag
                    /\ t.tag \notin VoidTags
                    /\ Balanced(o, t.end + 1, Tail(open))

\* ---------------------------------------------------------------- reading the tree
RECURSIVE HasRaw(_)
HasRaw(node) ==
  \/ node.kind = "RawMarkup"
  \/ \E i \in 1..Len(node.children) : HasRaw(node.children[i])

Sum(f) == LET RECURSIVE S(_)
              S(n) == IF n = 0 THEN 0 ELSE f[n] + S(n - 1)
          IN S(Len(f))

\* the length of the opening tag of an element, counted from its fields
OpenLen(node) ==
  2 + Len(node.tag)
  + Sum([i \in 1..Len(node.attributes) |->
          1 + Len(node.attributes[i].name)
          + (IF node.attributes[i].hasValue
               THEN 3 + Len(node.attributes[i].value)
                    + 4 * Count(node.attributes[i].value, "&")
                    + 5 * Count(node.attributes[i].value, "\"")
               ELSE 0)])

\* the length of the output of a node, counted from its fields
RECURSIVE OutLen(_)
OutLen(node) ==
  CASE node.kind = "None" -> 0
    [] node.kind = "Text" ->
         Len(node.value) + 4 * Count(node.value, "&")
         + 3 * Count(node.value, "<") + 3 * Count(node.value, ">")
    [] node.kind = "RawMarkup" -> Len(node.value)
    [] node.kind = "VoidElement" -> OpenLen(node)
    [] node.kind = "Element" ->
         OpenLen(node) + Len(node.tag) + 3
         + Sum([i \in 1..Len(node.children) |-> OutLen(node.children[i])])

\* where the raw nodes of a tree land in its output: <<offset, value>> for
\* every raw node, with the output of node starting at offset off
RECURSIVE RawAt(_, _)
RawAt(node, off) ==
  CASE node.kind = "RawMarkup" -> {<<off, node.value>>}
    [] node.kind = "Element" ->
         UNION { RawAt(node.children[i],
                       off + OpenLen(node)
                       + Sum([j \in 1..(i - 1) |-> OutLen(node.children[j])]))
                 : i \in 1..Len(node.children) }
    [] OTHER -> {}

\* the children with every none() removed
WithoutNone(children) == SelectSeq(children, LAMBDA c : c # none)

\* the tag each doc comment of conv.rs names
DocTag(fn) ==
  CASE fn = "div" -> <<"d", "i", "v">>
    [] fn = "head" -> <<"h", "e", "a", "d">>
    [] fn = "legend" -> <<"l", "e", "g", "e", "n", "d">>
    [] fn = "meta" -> <<"m", "e", "t", "a">>
    [] fn = "meta_charset_utf_8" -> <<"m", "e", "t", "a">>
    [] fn = "meta_charset_utf8" -> <<"m", "e", "t", "a">>
    [] fn = "meta_viewport" -> <<"m", "e", "t", "a">>
    [] fn = "meta_color_scheme" -> <<"m", "e", "t", "a">>
    [] fn = "link" -> <<"l", "i", "n", "k">>
    [] fn = "link_stylesheet" -> <<"l", "i", "n", "k">>
    [] fn = "script" -> <<"s", "c", "r", "i", "p", "t">>
    [] fn = "title" -> <<"t", "i", "t", "l", "e">>
    [] fn = "body" -> <<"b", "o", "d", "y">>
    [] fn = "hgroup" -> <<"h", "g", "r", "o", "u", "p">>
    [] fn = "h1" -> <<"h", "1">>
    [] fn = "h2" -> <<"h", "2">>
    [] fn = "h3" -> <<"h", "3">>
    [] fn = "h4" -> <<"h", "4">>
    [] fn = "h5" -> <<"h", "5">>
    [] fn = "h6" -> <<"h", "6">>
    [] fn = "p" -> <<"p">>
    [] fn = "br" -> <<"b", "r">>
    [] fn = "hr" -> <<"h", "r">>
    [] fn = "small" -> <<"s", "m", "a", "l", "l">>
    [] fn = "span" -> <<"s", "p", "a", "n">>
    [] fn = "table" -> <<"t", "a", "b", "l", "e">>
    [] fn = "tr" -> <<"t", "r">>
    [] fn = "td" -> <<"t", "d">>
    [] fn = "th" -> <<"t", "h">>
    [] fn = "thead" -> <<"t", "h", "e", "a", "d">>
    [] fn = "tbody" -> <<"t", "b", "o", "d", "y">>
    [] fn = "tfoot" -> <<"t", "f", "o", "o", "t">>
    [] fn = "section" -> <<"s", "e", "c", "t", "i", "o", "n">>
    [] fn = "article" -> <<"a", "r", "t", "i", "c", "l", "e">>
    [] fn = "header" -> <<"h", "e", "a", "d", "e", "r">>
    [] fn = "main" -> <<"m", "a", "i", "n">>
    [] fn = "footer" -> <<"f", "o", "o", "t", "e", "r">>
    [] fn = "a" -> <<"a">>
    [] fn = "img" -> <<"i", "m", "g">>
    [] fn = "ul" -> <<"u", "l">>
    [] fn = "ol" -> <<"o", "l">>
    [] fn = "li" -> <<"l", "i">>
    [] fn = "form" -> <<"f", "o", "r", "m">>
    [] fn = "fieldset" -> <<"f", "i", "e", "l", "d", "s", "e", "t">>
    [] fn = "input" -> <<"i", "n", "p", "u", "t">>
    [] fn = "textarea" -> <<"t", "e", "x", "t", "a", "r", "e", "a">>
    [] fn = "select" -> <<"s", "e", "l", "e", "c", "t">>
    [] fn = "option" -> <<"o", "p", "t", "i", "o", "n">>
    [] fn = "button" -> <<"b", "u", "t", "t", "o", "n">>
    [] fn = "label" -> <<"l", "a", "b", "e", "l">>
    [] OTHER -> <<>>

\* ---------------------------------------------------------------- claims
Rendered == pc = "rendered"
IsTag(node) == node.kind \in {"Element", "VoidElement"}
\* what follows the opening tag in the output
AfterOpen(o) == SubSeq(o, FirstTag(o).end + 1, Len(o))
CloseTag(tag) == <<"<", "/">> \o tag \o <<">">>

\* C1: the rendering of text(s) holds no literal '<' or '>', every '&' in it
\* starts one of &amp; &lt; &gt;, and reading the references back gives s
\* character for character (so each character of s was replaced exactly
\* once); text("&amp;") renders "&amp;amp;".
C1_TextEscapedOnce ==
  (Rendered /\ call.fn = "text") =>
    /\ Count(out, "<") = 0
    /\ Count(out, ">") = 0
    /\ Decode(out, TextEntities) = call.str
    /\ Len(out) = Len(call.str) + 4 * Count(call.str, "&")
                  + 3 * Count(call.str, "<") + 3 * Count(call.str, ">")
    /\ (call.str = <<"&", "a", "m", "p", ";">>
          => out = <<"&", "a", "m", "p", ";", "a", "m", "p", ";">>)

C1_Witness ==
  /\ Rendered
  /\ call.fn = "text"
  /\ call.str = <<"&", "a", "m", "p", ";">>
  /\ out = <<"&", "a", "m", "p", ";", "a", "m", "p", ";">>

\* C2: every raw-markup node of a rendered tree appears in the output
\* character for character at the place its position in the tree gives it,
\* at any depth and after any number of renderings; raw(v) renders v and
\* meta_viewport() renders its literal.
C2_RawVerbatim ==
  Rendered =>
    /\ \A r \in RawAt(cur, 0) : SubSeq(out, r[1] + 1, r[1] + Len(r[2])) = r[2]
    /\ (call.fn = "raw" => out = call.str)
    /\ (call.fn = "meta_viewport" => out = ViewportMarkup)
    /\ (HasRaw(cur) <=> RawAt(cur, 0) # {})

C2_Witness ==
  /\ Rendered
  /\ call.fn = "div"
  /\ \E r \in RawAt(cur, 0) :
       /\ r[1] > Len(<<"<", "d", "i", "v", ">">>)
       /\ r[2] = <<"<", "b", ">", "h", "i", "<", "/", "b", ">">>
       /\ SubSeq(out, r[1] + 1, r[1] + Len(r[2])) = r[2]

\* C3: a(href, children) renders an opening tag whose single attribute is
\* named href and whose value, between the double quotes, holds no literal
\* double quote and reads back as href; the children follow unaffected.
\* The same holds of every attribute with a value of every element.
C3_AttrValueEscaped ==
  (Rendered /\ IsTag(cur)) =>
    LET t == FirstTag(out)
    IN /\ t.ok
       /\ Len(t.attrs) = Len(cur.attributes)
       /\ \A i \in 1..Len(t.attrs) :
            cur.attributes[i].hasValue =>
              /\ t.attrs[i].hasValue
              /\ t.attrs[i].name = cur.attributes[i].name
              /\ Count(t.attrs[i].value, "\"") = 0
              /\ Decode(t.attrs[i].value, AttrEntities) = cur.attributes[i].value
              /\ Count(t.attrs[i].value, "&") >=
                   Count(cur.attributes[i].value, "&")
                   + Count(cur.attributes[i].value, "\"")
       /\ (call.fn = "a" =>
             /\ t.tag = <<"a">>
             /\ Len(t.attrs) = 1
             /\ t.attrs[1].name = <<"h", "r", "e", "f">>
             /\ t.attrs[1].hasValue
             /\ Decode(t.attrs[1].value, AttrEntities) = call.str
             /\ (call.children = <<text(<<"g", "o">>)>>
                   => AfterOpen(out) = <<"g", "o", "<", "/", "a", ">">>))

C3_Witness ==
  /\ Rendered
  /\ call.fn = "a"
  /\ call.str = <<"\"", "q", "u", "o", "t", "e", "\"">>
  /\ out = <<"<", "a", " ", "h", "r", "e", "f", "=", "\"",
             "&", "q", "u", "o", "t", ";", "q", "u", "o", "t", "e",
             "&", "q", "u", "o", "t", ";", "\"", ">",
             "g", "o", "<", "/", "a", ">">>

\* C4: a void element renders as its opening tag alone, with no slash
\* before the '>' and no closing tag; a normal element renders its opening
\* tag, its children and its closing tag, also with no children; br()
\* renders <br> and div([]) renders <div></div>.
C4_VoidVersusNormal ==
  Rendered =>
    /\ (cur.kind = "VoidElement" =>
          /\ FirstTag(out).ok
          /\ FirstTag(out).tag = cur.tag
          /\ FirstTag(out).end = Len(out)
          /\ out[Len(out) - 1] # "/"
          /\ ~EndsWith(out, CloseTag(cur.tag)))
    /\ (cur.kind = "Element" =>
          /\ FirstTag(out).ok
          /\ FirstTag(out).tag = cur.tag
          /\ EndsWith(out, CloseTag(cur.tag))
          /\ Len(out) >= FirstTag(out).end + Len(CloseTag(cur.tag))
          /\ (cur.children = <<>> => AfterOpen(out) = CloseTag(cur.tag)))
    /\ (call.fn = "br" => out = <<"<", "b", "r", ">">>)
    /\ (call.fn = "div" /\ call.children = <<>> =>
          out = <<"<", "d", "i", "v", ">", "<", "/", "d", "i", "v", ">">>)

C4_Witness ==
  \/ Rendered /\ call.fn = "br" /\ out = <<"<", "b", "r", ">">>
  \/ /\ Rendered
     /\ call.fn = "div"
     /\ call.children = <<>>
     /\ out = <<"<", "d", "i", "v", ">", "<", "/", "d", "i", "v", ">">>

\* C5: in the opening tag of every element and void element each attribute
\* is one space and its name, followed by nothing when it has no value and
\* by ="escaped value" when it has one, the empty string included;
\* meta_color_scheme(s) renders name="color-scheme" and content="s".
C5_AttributeForms ==
  (Rendered /\ IsTag(cur)) =>
    LET t == FirstTag(out)
    IN /\ t.ok
       /\ t.end = OpenLen(cur)
       /\ Len(t.attrs) = Len(cur.attributes)
       /\ \A i \in 1..Len(t.attrs) :
            /\ t.attrs[i].name = cur.attributes[i].name
            /\ t.attrs[i].hasValue = cur.attributes[i].hasValue
       /\ (call.fn = "meta_color_scheme" =>
             /\ t.tag = <<"m", "e", "t", "a">>
             /\ DecodedAttrs(t.attrs) =
                  << Attribute_new(<<"n", "a", "m", "e">>,
                       <<"c", "o", "l", "o", "r", "-", "s", "c", "h", "e", "m", "e">>),
                     Attribute_new(<<"c", "o", "n", "t", "e", "n", "t">>, call.str) >>)

C5_Witness ==
  /\ Rendered
  /\ call.fn = "meta_color_scheme"
  /\ call.str = <<>>
  /\ out = <<"<", "m", "e", "t", "a", " ", "n", "a", "m", "e", "=", "\"",
             "c", "o", "l", "o", "r", "-", "s", "c", "h", "e", "m", "e", "\"",
             " ", "c", "o", "n", "t", "e", "n", "t", "=", "\"", "\"", ">">>

\* C6: the attributes read back from the opening tag are the attributes
\* passed, in the order passed, and what follows the opening tag is the
\* renderings of the children passed, in the order passed, then the closing
\* tag; link_stylesheet(url) renders rel before href.
C6_OrderPreserved ==
  (Rendered /\ IsTag(cur)) =>
    LET t == FirstTag(out)
    IN /\ t.ok
       /\ DecodedAttrs(t.attrs) = cur.attributes
       /\ (call.fn \in AttrsFns \cup AttrsChildrenFns \cup {"textarea"} =>
             DecodedAttrs(t.attrs) = call.attributes)
       /\ (call.fn \in ChildrenFns \cup AttrsChildrenFns \cup {"a"} =>
             AfterOpen(out) =
               Flatten([i \in 1..Len(call.children) |-> render(call.children[i])])
               \o CloseTag(t.tag))
       /\ (call.fn = "link_stylesheet" =>
             DecodedAttrs(t.attrs) =
               << Attribute_new(<<"r", "e", "l">>,
                    <<"s", "t", "y", "l", "e", "s", "h", "e", "e", "t">>),
                  Attribute_new(<<"h", "r", "e", "f">>, call.str) >>)

C6_Witness ==
  /\ Rendered
  /\ call.fn = "form"
  /\ Len(call.attributes) >= 2
  /\ call.attributes[1] # call.attributes[2]
  /\ Len(call.children) >= 2
  /\ render(call.children[1]) # render(call.children[2])
  /\ DecodedAttrs(FirstTag(out).attrs) = call.attributes

\* C7: none() renders the empty string, and an element renders the same
\* with and without none() children, wherever they stand among its children.
C7_NoneContributesNothing ==
  Rendered =>
    /\ (call.fn = "none" => out = <<>>)
    /\ (call.fn \in ChildrenFns \cup AttrsChildrenFns \cup {"a"} =>
          out = render(Build(call.fn, call.str, call.attributes,
                             WithoutNone(call.children))))

C7_Witness ==
  /\ Rendered
  /\ call.fn = "div"
  /\ Len(call.children) = 2
  /\ call.children[1] = none
  /\ call.children[2] # none
  /\ out = render(div(<<call.children[2]>>))

\* C8: the response the adapter returns for a document has the rendering of
\* the document as its body and a content-type header with an HTML media
\* type.
C8_ResponseIsHtml ==
  pc = "responded" =>
    /\ resp.body = render(doc.root)
    /\ \E h \in resp.headers :
         /\ h[1] = "content-type"
         /\ h[2] \in {"text/html", "text/html; charset=utf-8"}

\* C10: br, hr, meta, link, img and input (and the helpers built on meta and
\* link) build void elements, every other constructor that builds an element
\* builds a normal one, each with the tag its doc comment names; the three
\* helpers that emit a literal meta tag emit that one tag and nothing else;
\* and in the rendering of a tree without raw markup every closing tag
\* closes the innermost open element and no void tag is ever closed.
VoidFns ==
  {"br", "hr", "meta", "link", "img", "input", "meta_color_scheme",
   "link_stylesheet"}

NormalFns ==
  ChildrenFns \cup AttrsChildrenFns \cup {"a", "textarea", "script", "title"}

LiteralFns == {"meta_charset_utf_8", "meta_charset_utf8", "meta_viewport"}

C10_CatalogueWellNested ==
  Rendered =>
    /\ (call.fn \in VoidFns =>
          cur.kind = "VoidElement" /\ cur.tag = DocTag(call.fn))
    /\ (call.fn \in NormalFns =>
          cur.kind = "Element" /\ cur.tag = DocTag(call.fn))
    /\ (call.fn \in LiteralFns =>
          /\ FirstTag(out).ok
          /\ FirstTag(out).tag = DocTag(call.fn)
          /\ FirstTag(out).end = Len(out))
    /\ (IsTag(cur) => (cur.tag \in VoidTags <=> cur.kind = "VoidElement"))
    /\ (~HasRaw(cur) => Balanced(out, 1, <<>>))

C10_Witness ==
  /\ Rendered
  /\ call.fn = "form"
  /\ Len(call.children) = 2
  /\ call.children[1].kind = "Element"
  /\ call.children[1].children[2].kind = "VoidElement"
  /\ Len(call.attributes) = 2
  /\ ~HasRaw(cur)
  /\ Balanced(out, 1, <<>>)

====
